---- MODULE Spec2Model ----
(***************************************************************************)
(* Barbell tilt-angle pipeline: slope-form and directional-form angles,    *)
(* moving-average smoothing of keypoint channels, and the ArUco marker     *)
(* tracker.                                                                *)
(*                                                                         *)
(* Number representation.  A float is a record [nan, v]: nan marks the     *)
(* IEEE NaN, v is the value.  Pixel coordinates are integers; smoothed     *)
(* coordinates are exact rationals kept as integers in units of 1/Scale    *)
(* pixel.  float64 rounding of sums and differences is not modelled.       *)
(* An angle is a record [nan, ud]: ud is the angle in microdegrees,        *)
(* truncated toward zero.  A rounded angle is [nan, h], h in hundredths    *)
(* of a degree.                                                            *)
(***************************************************************************)
EXTENDS Integers, Sequences, FiniteSets, TLC

VARIABLES
    frame,       \* angle scripts: the one row of the keypoint table read
    sample,      \* angle scripts: what the last script run computed
    data,        \* moving_average: the input series (one channel)
    window,      \* moving_average: window_size
    smoothed,    \* moving_average: what the last call returned or raised
    h5,          \* process_h5_file: the keypoint series of the input file
    pwindow,     \* process_h5_file: window_size
    files,       \* process_h5_file: what the call wrote and how it ended
    trajectory,  \* BarbellTracker.trajectory
    detected,    \* BarbellTracker: what detect_markers returned for the last frame
    drawn,       \* BarbellTracker: roles labelled on the last frame
    nframes,     \* BarbellTracker: frames read by process_video so far
    columns,     \* keypoint table: the (keypoint, coordinate) columns it has
    display,     \* barbell_angle_display: frame_idx, frames written, how it ended
    pvalue,      \* add_significance_annotation: p_value
    alpha,       \* add_significance_annotation: alpha
    sig_text,    \* add_significance_annotation: the stars of the text drawn
    group1,      \* compare scripts: keypoint series behind the first group's CSV
    group2,      \* compare scripts: keypoint series behind the second group's CSV
    report,      \* compare scripts: what main computed and wrote
    summary,     \* analyze_barbell_angles on a series: the statistics returned
    middles      \* BarbellTracker, history: every point appended to the trajectory

vars == <<frame, sample, data, window, smoothed, h5, pwindow, files,
          trajectory, detected, drawn, nframes, columns, display,
          pvalue, alpha, sig_text, group1, group2, report, summary, middles>>

angleVars == <<frame, sample, columns>>
smoothVars == <<data, window, smoothed>>
pipeVars == <<h5, pwindow, files, display>>
trackerVars == <<trajectory, detected, drawn, nframes, middles>>
sigVars == <<pvalue, alpha, sig_text>>
compareVars == <<group1, group2, report, summary>>

----------------------------------------------------------------------------
(* Bounds of the model *)

MaxCoord == 2

MaxHeight == 2

\* moving_average: longest series, largest value (pixels), largest window
MaxLen == 4

MaxVal == 3

MaxWindow == 5

\* process_h5_file: longest keypoint series
MaxFrames == 3

\* BarbellTracker: largest marker identifier, largest shift of the bar,
\* frames read
MaxId == 3

MaxCenter == 1

MaxTracked == 2

----------------------------------------------------------------------------
(* Floats *)

FNaN == [nan |-> TRUE, v |-> 0]

Fl(n) == [nan |-> FALSE, v |-> n]

Abs(n) == IF n < 0 THEN -n ELSE n

Sign(n) == IF n < 0 THEN -1 ELSE IF n > 0 THEN 1 ELSE 0

Max2(a, b) == IF a >= b THEN a ELSE b

Min2(a, b) == IF a <= b THEN a ELSE b

FSub(a, b) == IF a.nan \/ b.nan THEN FNaN ELSE Fl(a.v - b.v)

FAbs(a) == IF a.nan THEN FNaN ELSE Fl(Abs(a.v))

FAdd(a, b) == IF a.nan \/ b.nan THEN FNaN ELSE Fl(a.v + b.v)

ANaN == [nan |-> TRUE, ud |-> 0]

Ang(u) == [nan |-> FALSE, ud |-> u]

RNaN == [nan |-> TRUE, h |-> 0]

\* A displayed angle [nan, t], t in tenths of a degree
TNaN == [nan |-> TRUE, t |-> 0]

----------------------------------------------------------------------------
(* arctan in degrees *)

\* atan(2^-(i-1)) in microdegrees, i = 1..24
AtanTable ==
    <<45000000, 26565051, 14036243, 7125016, 3576334, 1789911, 895174,
      447614, 223811, 111906, 55953, 27976, 13988, 6994, 3497, 1749, 874,
      437, 219, 109, 55, 27, 14, 7>>

CordicScale == 2 ^ 28

MicroPerDegree == 10 ^ 6

Right90 == 90 * MicroPerDegree

Straight180 == 180 * MicroPerDegree

\* Vectoring CORDIC: rotates (x, y), x > 0, onto the x axis and sums the
\* rotation angles; stops early when y is exactly 0.
RECURSIVE Cordic(_, _, _, _)
Cordic(x, y, z, i) ==
    IF y = 0 \/ i > Len(AtanTable) THEN z
    ELSE LET p == 2 ^ (i - 1) IN
         IF y > 0
         THEN Cordic(x + (y \div p), y - (x \div p), z + AtanTable[i], i + 1)
         ELSE Cordic(x + ((-y) \div p), y + (x \div p), z - AtanTable[i], i + 1)

\* degrees(arctan(n / d)) in microdegrees for n >= 0, d > 0, good to a few
\* microdegrees: a finite ratio has an arctangent strictly below 90 degrees.
AtanMicro(n, d) ==
    LET f == CordicScale \div Max2(n, d)
        z == Cordic(d * f, n * f, 0, 1)
    IN  IF n = 0 THEN 0 ELSE Max2(1, Min2(z, Right90 - 1))

\* -dy on IEEE floats.  dy is a difference of two coordinates, so a zero dy
\* is +0.0 and its negation is -0.0 (nz).
FNeg(a) == [nan |-> a.nan, v |-> -a.v, nz |-> ~a.nan /\ a.v = 0]

\* math.degrees(math.atan2(y, x)): y carries the sign of its zero, x is a
\* difference (its zero is +0.0).  atan2(-0.0, x < 0) is -pi.
Atan2Deg(y, x) ==
    IF y.nan \/ x.nan THEN ANaN
    ELSE IF y.v = 0
         THEN (IF x.v >= 0 THEN Ang(0)
               ELSE IF y.nz THEN Ang(-Straight180) ELSE Ang(Straight180))
    ELSE IF x.v = 0 THEN Ang(Sign(y.v) * Right90)
    ELSE IF x.v > 0 THEN Ang(Sign(y.v) * AtanMicro(Abs(y.v), x.v))
    ELSE Ang(Sign(y.v) * (Straight180 - AtanMicro(Abs(y.v), -x.v)))

\* np.round(a, 2) and round(a, 2): to the nearest hundredth, ties to even
RoundHalfEven(u, unit) ==
    LET a == Abs(u)
        q == a \div unit
        r == a % unit
        up == (2 * r > unit) \/ (2 * r = unit /\ q % 2 = 1)
    IN  Sign(u) * (IF up THEN q + 1 ELSE q)

MicroPerHundredth == MicroPerDegree \div 100

Round2(a) == IF a.nan THEN RNaN
             ELSE [nan |-> FALSE, h |-> RoundHalfEven(a.ud, MicroPerHundredth)]

----------------------------------------------------------------------------
(* Keypoints and frames *)

Coords == 0 .. MaxCoord

Missing == [x |-> FNaN, y |-> FNaN]

Keypoints == {[x |-> Fl(px), y |-> Fl(py)] : px \in Coords, py \in Coords}
             \cup {Missing}

\* A bar whose left end is higher in the image than the middle and whose
\* right end is lower, on a frame 200 pixels high
ScenarioFrame ==
    [Left |-> [x |-> Fl(0), y |-> Fl(90)],
     Middle |-> [x |-> Fl(50), y |-> Fl(100)],
     Right |-> [x |-> Fl(100), y |-> Fl(110)]]

ScenarioHeight == 2 * 100

Frames == [Left : Keypoints, Middle : Keypoints, Right : Keypoints]
          \cup {ScenarioFrame}

\* analyze_barbell_angles(input_file, video_height=1342)
VideoHeightDefault == 1342

\* calculate_and_plot_angles subtracts from the literal 1342
PlotHeight == 1342

Heights == (0 .. MaxHeight) \cup {VideoHeightDefault, ScenarioHeight}

IsMissing(k) == k.x.nan \/ k.y.nan

Coincide(a, b) == ~IsMissing(a) /\ ~IsMissing(b) /\ a.x.v = b.x.v /\ a.y.v = b.y.v

----------------------------------------------------------------------------
(* What each script holds before it has run *)

\* No denominator (the directional form divides nothing)
NoDenom == [nan |-> TRUE, px |-> 0, eps |-> 0]

NoSide == [dx |-> FNaN, dy |-> FNaN, den |-> NoDenom, angle |-> ANaN,
           rounded |-> RNaN, text |-> TNaN]

NoStats == [left_angle_mean |-> RNaN, left_angle_std |-> RNaN,
            right_angle_mean |-> RNaN, right_angle_std |-> RNaN]

NoSample == [kind |-> "none", height |-> 0, left |-> NoSide, right |-> NoSide,
             stats |-> NoStats, ret |-> "none"]

NotSmoothed == [status |-> "none", values |-> <<>>]

NoFiles == [status |-> "none", csv_before |-> <<>>, plot_before |-> FALSE,
            nsmoothed |-> 0, smoothed_h5 |-> <<>>, saved |-> FALSE,
            csv_after |-> <<>>, plot_after |-> FALSE]

\* The columns the angle scripts read: (keypoint, coordinate)
RequiredColumns ==
    {<<k, c>> : k \in {"Left", "Middle", "Right"}, c \in {"x", "y"}}

NoDisplay == [frame_idx |-> 0, written |-> <<>>, status |-> "none"]

\* p-values and alpha are kept in units of 1/PerOne
PerOne == 2 * 10 ^ 3

\* parser.add_argument('--alpha', type=float, default=0.05)
AlphaDefault == PerOne \div 20

NoSigText == [script |-> "none", stars |-> "none"]

\* A statistic of which only being NaN or not is kept
NoValue == [nan |-> TRUE]

NoSideReport == [used1 |-> <<>>, used2 |-> <<>>, mean1 |-> RNaN, mean2 |-> RNaN,
                 sem1 |-> NoValue, sem2 |-> NoValue, t_stat |-> NoValue,
                 p_value |-> FNaN, stars |-> "none"]

NoReport == [script |-> "none", status |-> "none", left |-> NoSideReport,
             right |-> NoSideReport, results_file |-> FALSE, plot |-> FALSE]

NoSideSummary == [used |-> <<>>, mean |-> RNaN, std |-> NoValue]

NoSummary == [ret |-> "none", left |-> NoSideSummary, right |-> NoSideSummary]

----------------------------------------------------------------------------
(* Slope form *)

\* Mutant: the y axis is not flipped
NormalizeYRaw(H, y) == y

\* video_height - df[(scorer, k, 'y')]
NormalizeY(H, y) == FSub(Fl(H), y)

\* abs(df[(scorer, end, 'x')] - df[(scorer, 'Middle', 'x')])
SlopeDx(end, mid) == FAbs(FSub(end.x, mid.x))

\* Mutant: the difference of the image coordinates, y growing downward
SlopeDyImage(H, end, mid) == FSub(end.y, mid.y)

\* end_y_math - middle_y_math
SlopeDy(H, end, mid) == FSub(NormalizeY(H, end.y), NormalizeY(H, mid.y))

\* A denominator dx + eps * 1e-9 (px in coordinate units)
Denom(dx, e) == [nan |-> dx.nan, px |-> dx.v, eps |-> e]

DenomIsZero(d) == ~d.nan /\ d.px = 0 /\ d.eps = 0

\* np.degrees(np.arctan(num / den)) on IEEE floats, den >= 0:
\* x/0 is +-inf and arctan(+-inf) is +-90 exactly, 0/0 is NaN;
\* x/1e-9 is finite, so its arctangent is strictly inside (-90, 90).
ArctanDegDiv(num, den) ==
    IF num.nan \/ den.nan THEN ANaN
    ELSE IF DenomIsZero(den)
         THEN (IF num.v = 0 THEN ANaN ELSE Ang(Sign(num.v) * Right90))
    ELSE IF num.v = 0 THEN Ang(0)
    ELSE IF den.px = 0 THEN Ang(Sign(num.v) * (Right90 - 1))
    ELSE Ang(Sign(num.v) * AtanMicro(Abs(num.v), den.px))

\* epsilon = 1e-9 in calculate_and_plot_angles, in units of 1e-9
EpsilonPlot == 1

\* analyze_barbell_angles divides by left_dx itself
EpsilonAnalyze == 0

\* Mutant: the directional form's atan2 on the signed dx
SlopeSideAtan2(H, end, mid, e) ==
    LET dx == FSub(end.x, mid.x)
        dy == SlopeDy(H, end, mid)
    IN  [dx |-> FAbs(dx), dy |-> dy, den |-> Denom(FAbs(dx), e),
         angle |-> Atan2Deg([nan |-> dy.nan, v |-> dy.v, nz |-> FALSE], dx),
         rounded |-> RNaN, text |-> TNaN]

\* One side of one row: dx, dy, the denominator and the angle
SlopeSide(H, end, mid, e) ==
    LET dx == SlopeDx(end, mid)
        dy == SlopeDy(H, end, mid)
        den == Denom(dx, e)
    IN  [dx |-> dx, dy |-> dy, den |-> den, angle |-> ArctanDegDiv(dy, den),
         rounded |-> RNaN, text |-> TNaN]

\* One row of analyze_barbell_angles
RowAnalyze(f, H) ==
    [left |-> SlopeSide(H, f.Left, f.Middle, EpsilonAnalyze),
     right |-> SlopeSide(H, f.Right, f.Middle, EpsilonAnalyze)]

\* left_angle_deg = np.round(left_angle_deg, 2)
RoundSide(side) == [side EXCEPT !.rounded = Round2(side.angle)]

\* One row of calculate_and_plot_angles, H being 1342 in the unit of the
\* coordinates
RowPlotAt(f, H) ==
    [left |-> RoundSide(SlopeSide(H, f.Left, f.Middle, EpsilonPlot)),
     right |-> RoundSide(SlopeSide(H, f.Right, f.Middle, EpsilonPlot))]

\* One row of a table whose coordinates are whole pixels
RowPlot(f) == RowPlotAt(f, PlotHeight)

----------------------------------------------------------------------------
(* Directional form *)

MicroPerTenth == MicroPerDegree \div 10

\* f"{angle:.1f}"
Format1(a) == IF a.nan THEN TNaN
              ELSE [nan |-> FALSE, t |-> RoundHalfEven(a.ud, MicroPerTenth)]

\* Mutant: the left side angle is not negated
calculate_angle_not_negated(p1, p2, is_left) ==
    Atan2Deg(FNeg(FSub(p2.y, p1.y)), FSub(p2.x, p1.x))

\* calculate_angle(p1, p2, is_left)
calculate_angle(p1, p2, is_left) ==
    LET dx == FSub(p2.x, p1.x)
        dy == FSub(p2.y, p1.y)
        angle == Atan2Deg(FNeg(dy), dx)
    IN  IF is_left /\ ~angle.nan THEN Ang(-angle.ud) ELSE angle

DirectionalSide(p1, p2, is_left) ==
    LET a == calculate_angle(p1, p2, is_left)
    IN  [dx |-> FSub(p2.x, p1.x), dy |-> FSub(p2.y, p1.y), den |-> NoDenom,
         angle |-> a, rounded |-> RNaN, text |-> Format1(a)]

----------------------------------------------------------------------------
(* The angle scripts on a keypoint table of one row *)

\* The other scripts are not running
InitAngle ==
    /\ frame \in Frames
    /\ sample = NoSample
    /\ data = <<>>
    /\ window = 1
    /\ smoothed = NotSmoothed
    /\ h5 = <<>>
    /\ pwindow = 1
    /\ files = NoFiles
    /\ trajectory = <<>>
    /\ detected = <<>>
    /\ drawn = <<>>
    /\ nframes = 0
    /\ columns = RequiredColumns
    /\ display = NoDisplay
    /\ pvalue = FNaN
    /\ alpha = AlphaDefault
    /\ sig_text = NoSigText
    /\ group1 = <<>>
    /\ group2 = <<>>
    /\ report = NoReport
    /\ summary = NoSummary
    /\ middles = <<>>

\* df[(scorer, k, c)] of a column the table does not have raises KeyError
HasRequiredColumns == RequiredColumns \subseteq columns

\* analyze_barbell_angles: the angle columns, then mean and std of each.  Of
\* one row the mean is the value itself (NaN when it is NaN) and the sample
\* standard deviation (ddof = 1) is NaN.  Whatever is raised inside is
\* caught by `except Exception`, printed, and None is returned.
AnalyzeBarbellAngles ==
    \E H \in Heights :
        LET row == RowAnalyze(frame, H) IN
        /\ sample' =
              IF ~HasRequiredColumns
              THEN [NoSample EXCEPT !.kind = "analyze", !.ret = "None"]
              ELSE [kind |-> "analyze", height |-> H,
                    left |-> row.left, right |-> row.right,
                    stats |-> [left_angle_mean |-> Round2(row.left.angle),
                               left_angle_std |-> RNaN,
                               right_angle_mean |-> Round2(row.right.angle),
                               right_angle_std |-> RNaN],
                    ret |-> "stats"]
        /\ UNCHANGED <<frame, columns>>

\* calculate_and_plot_angles: the rounded angle table, its CSV and its plot
CalculateAndPlotAngles ==
    LET row == RowPlot(frame) IN
    /\ sample' =
          IF ~HasRequiredColumns
          THEN [NoSample EXCEPT !.kind = "plot", !.ret = "KeyError"]
          ELSE [kind |-> "plot", height |-> PlotHeight,
                left |-> row.left, right |-> row.right,
                stats |-> NoStats, ret |-> "files"]
    /\ UNCHANGED <<frame, columns>>

\* barbell_angle_display: the body of the frame loop.  int() of a NaN
\* coordinate raises ValueError, which the loop does not catch.
DisplayFrame ==
    /\ sample' =
          IF IsMissing(frame.Left) \/ IsMissing(frame.Middle)
             \/ IsMissing(frame.Right)
          THEN [NoSample EXCEPT !.kind = "display", !.ret = "ValueError"]
          ELSE [kind |-> "display", height |-> 0,
                left |-> DirectionalSide(frame.Left, frame.Middle, TRUE),
                right |-> DirectionalSide(frame.Middle, frame.Right, FALSE),
                stats |-> NoStats, ret |-> "written"]
    /\ UNCHANGED <<frame, columns>>

\* The angle scripts on tables that may lack columns
MalformedFrames ==
    {f \in Frames : /\ f.Middle = [x |-> Fl(1), y |-> Fl(1)]
                    /\ f.Right = [x |-> Fl(2), y |-> Fl(1)]}

----------------------------------------------------------------------------
(* Moving average *)

RECURSIVE Gcd(_, _)
Gcd(a, b) == IF b = 0 THEN a ELSE Gcd(b, a % b)

RECURSIVE LcmUpTo(_)
LcmUpTo(n) == IF n <= 1 THEN 1
              ELSE LET l == LcmUpTo(n - 1) IN (l * n) \div Gcd(l, n)

\* Series values are kept in units of 1/Scale pixel, so that the weight
\* 1/window_size of the kernel is an exact integer division
Scale == LcmUpTo(MaxWindow)

\* Mutant: the kernel np.ones(m), not divided by m
FWeighOnes(a, m) == a

\* a[j] * (1 / m), exact because the values are multiples of Scale / m
FWeigh(a, m) == IF a.nan THEN FNaN ELSE Fl(a.v \div m)

\* full[t] = sum over j of a[j] * v[t - j], t = 0 .. n + m - 2, with the
\* kernel v = np.ones(m) / m; indices here are 1-based (t + 1, j + 1)
RECURSIVE FullAt(_, _, _, _)
FullAt(a, m, t, j) ==
    IF j > Len(a) THEN Fl(0)
    ELSE IF t - j >= 0 /\ t - j <= m - 1
         THEN FAdd(FWeigh(a[j], m), FullAt(a, m, t, j + 1))
         ELSE FullAt(a, m, t, j + 1)

\* Mutant: the centre slice starts one place late for an even kernel
SameOffsetLate(n, m) == Min2(n, m) \div 2

\* mode='same': the centre max(n, m) values of the full convolution
SameOffset(n, m) == (Min2(n, m) - 1) \div 2

\* Mutant: mode='valid', only the places where the kernel fits
ConvolveValid(a, m) ==
    [i \in 1 .. (Len(a) - m + 1) |-> FullAt(a, m, i + m - 1, 1)]

\* np.convolve(data, np.ones(m) / m, mode='same')
ConvolveSame(a, m) ==
    [i \in 1 .. Max2(Len(a), m) |-> FullAt(a, m, i + SameOffset(Len(a), m), 1)]

\* moving_average(data, window_size)
moving_average(a, window_size) ==
    IF Len(a) < window_size
    THEN [status |-> "ValueError", values |-> <<>>]
    ELSE [status |-> "ok", values |-> ConvolveSame(a, window_size)]

RECURSIVE SeqsUpTo(_, _)
SeqsUpTo(S, n) ==
    IF n = 0 THEN {<<>>}
    ELSE LET shorter == SeqsUpTo(S, n - 1)
         IN  shorter \cup {Append(q, e) : q \in {r \in shorter : Len(r) = n - 1}, e \in S}

SeriesValues == {Fl(px * Scale) : px \in 0 .. MaxVal} \cup {FNaN}

InitSmooth ==
    /\ data \in (SeqsUpTo(SeriesValues, MaxLen) \ {<<>>})
    /\ window \in 1 .. MaxWindow
    /\ smoothed = NotSmoothed
    /\ frame = [Left |-> Missing, Middle |-> Missing, Right |-> Missing]
    /\ sample = NoSample
    /\ h5 = <<>>
    /\ pwindow = 1
    /\ files = NoFiles
    /\ trajectory = <<>>
    /\ detected = <<>>
    /\ drawn = <<>>
    /\ nframes = 0
    /\ columns = RequiredColumns
    /\ display = NoDisplay
    /\ pvalue = FNaN
    /\ alpha = AlphaDefault
    /\ sig_text = NoSigText
    /\ group1 = <<>>
    /\ group2 = <<>>
    /\ report = NoReport
    /\ summary = NoSummary
    /\ middles = <<>>

MovingAverage ==
    /\ smoothed' = moving_average(data, window)
    /\ UNCHANGED <<data, window>>

----------------------------------------------------------------------------
(* process_h5_file *)

PipeKeypoint(px, py) == [x |-> Fl(px * Scale), y |-> Fl(py * Scale)]

\* The frames a series of the pipeline is made of: a level bar, a tilted
\* bar, a left end straight above the middle, a left end on the middle, and
\* a frame whose left end was not tracked
PipeFrames ==
    {[Left |-> PipeKeypoint(0, 1), Middle |-> PipeKeypoint(1, 1), Right |-> PipeKeypoint(2, 1)],
     [Left |-> PipeKeypoint(0, 0), Middle |-> PipeKeypoint(1, 1), Right |-> PipeKeypoint(2, 2)],
     [Left |-> PipeKeypoint(1, 0), Middle |-> PipeKeypoint(1, 2), Right |-> PipeKeypoint(2, 2)],
     [Left |-> PipeKeypoint(1, 1), Middle |-> PipeKeypoint(1, 1), Right |-> PipeKeypoint(2, 0)],
     [Left |-> Missing, Middle |-> PipeKeypoint(1, 1), Right |-> PipeKeypoint(2, 1)]}

\* original_data.columns.levels[1] and levels[2], in the order of the loops
ChannelOrder ==
    << <<"Left", "x">>, <<"Left", "y">>, <<"Middle", "x">>, <<"Middle", "y">>,
       <<"Right", "x">>, <<"Right", "y">> >>

\* Mutant: every coordinate is read from the x column of its keypoint
ChannelCrossed(series, ch) == [i \in DOMAIN series |-> series[i][ch[1]]["x"]]

\* original_data[(scorer, keypoint, coordinate)].values
Channel(series, ch) == [i \in DOMAIN series |-> series[i][ch[1]][ch[2]]]

\* The angle table of calculate_and_plot_angles: Frame, left_angle_deg,
\* right_angle_deg, one row per frame
AngleTable(series) ==
    [i \in DOMAIN series |->
        LET row == RowPlotAt(series[i], PlotHeight * Scale)
        IN  [Frame |-> i - 1,
             left_angle_deg |-> row.left.rounded,
             right_angle_deg |-> row.right.rounded]]

\* pd.DataFrame(smoothed_data_dict, index=original_data.index)
SmoothedFrame(results, i) ==
    [Left |-> [x |-> results[1].values[i], y |-> results[2].values[i]],
     Middle |-> [x |-> results[3].values[i], y |-> results[4].values[i]],
     Right |-> [x |-> results[5].values[i], y |-> results[6].values[i]]]

\* The smoothing loop: moving_average of every channel, in loop order
SmoothingLoop(series, window_size) ==
    [k \in DOMAIN ChannelOrder |->
        moving_average(Channel(series, ChannelOrder[k]), window_size)]

\* process_h5_file(input_file, output_file, window_size)
process_h5_file(series, window_size) ==
    LET results == SmoothingLoop(series, window_size)
        failing == {k \in DOMAIN ChannelOrder : results[k].status = "ValueError"}
        first == CHOOSE k \in failing : \A j \in failing : k <= j
        smoothed_data == [i \in DOMAIN series |-> SmoothedFrame(results, i)]
    IN  IF failing # {}
        THEN [NoFiles EXCEPT !.status = "ValueError",
                             !.csv_before = AngleTable(series),
                             !.plot_before = TRUE,
                             !.nsmoothed = first - 1]
        ELSE [status |-> "ok",
              csv_before |-> AngleTable(series), plot_before |-> TRUE,
              nsmoothed |-> Len(ChannelOrder),
              smoothed_h5 |-> smoothed_data, saved |-> TRUE,
              csv_after |-> AngleTable(smoothed_data), plot_after |-> TRUE]

InitPipe ==
    /\ h5 \in (SeqsUpTo(PipeFrames, MaxFrames) \ {<<>>})
    /\ pwindow \in 1 .. MaxWindow
    /\ files = NoFiles
    /\ frame = [Left |-> Missing, Middle |-> Missing, Right |-> Missing]
    /\ sample = NoSample
    /\ data = <<>>
    /\ window = 1
    /\ smoothed = NotSmoothed
    /\ trajectory = <<>>
    /\ detected = <<>>
    /\ drawn = <<>>
    /\ nframes = 0
    /\ columns = RequiredColumns
    /\ display = NoDisplay
    /\ pvalue = FNaN
    /\ alpha = AlphaDefault
    /\ sig_text = NoSigText
    /\ group1 = <<>>
    /\ group2 = <<>>
    /\ report = NoReport
    /\ summary = NoSummary
    /\ middles = <<>>

\* The call of calculate_and_plot_angles on the original data (line 96)
\* comes first and raises KeyError when a column it reads is not there
ProcessH5File ==
    /\ files' = IF ~HasRequiredColumns
                THEN [NoFiles EXCEPT !.status = "KeyError"]
                ELSE process_h5_file(h5, pwindow)
    /\ UNCHANGED <<h5, pwindow, display>>

\* barbell_angle_display: one turn of the frame loop over the table h5 (the
\* video has a frame for every row).  int() of a NaN coordinate raises
\* ValueError; the loop catches IndexError only, so the script stops there.
DisplayLoopStep ==
    /\ display.status \in {"none", "running"}
    /\ display' =
          IF display.frame_idx >= Len(h5)
          THEN [display EXCEPT !.status = "finished"]
          ELSE LET f == h5[display.frame_idx + 1] IN
               IF IsMissing(f.Left) \/ IsMissing(f.Middle) \/ IsMissing(f.Right)
               THEN [display EXCEPT !.status = "ValueError"]
               ELSE [frame_idx |-> display.frame_idx + 1,
                     written |-> Append(display.written,
                         [Frame |-> display.frame_idx,
                          left_angle |-> calculate_angle(f.Left, f.Middle, TRUE),
                          right_angle |-> calculate_angle(f.Middle, f.Right, FALSE)]),
                     status |-> "running"]
    /\ UNCHANGED <<h5, pwindow, files>>

\* The scripts that read a keypoint table, on tables that may lack columns
InitMalformed ==
    /\ columns \in SUBSET RequiredColumns
    /\ frame \in MalformedFrames
    /\ sample = NoSample
    /\ h5 \in {<<f>> : f \in PipeFrames}
    /\ pwindow = 1
    /\ files = NoFiles
    /\ display = NoDisplay
    /\ data = <<>>
    /\ window = 1
    /\ smoothed = NotSmoothed
    /\ trajectory = <<>>
    /\ detected = <<>>
    /\ drawn = <<>>
    /\ nframes = 0
    /\ pvalue = FNaN
    /\ alpha = AlphaDefault
    /\ sig_text = NoSigText
    /\ group1 = <<>>
    /\ group2 = <<>>
    /\ report = NoReport
    /\ summary = NoSummary
    /\ middles = <<>>

----------------------------------------------------------------------------
(* BarbellTracker *)

\* cv2.aruco.DICT_4X4_50: identifiers 0 .. 49
DictSize == 50

MarkerIds == 0 .. Min2(MaxId, DictSize - 1)

Centers == {<<cx, 0>> : cx \in 0 .. (MaxId + MaxCenter)}

\* One detected marker: its centre (the integer mean of its corners) and
\* its identifier
Detections == [point : Centers, id : MarkerIds]

\* labels = ["Left", "Middle", "Right"]
Labels == <<"Left", "Middle", "Right">>

NumRoles == Len(Labels)

\* self.max_trajectory_points = 50
max_trajectory_points == 50

\* Stable insertion of d into a list sorted by identifier
RECURSIVE InsertById(_, _)
InsertById(sorted, d) ==
    IF sorted = <<>> THEN <<d>>
    ELSE IF d.id < Head(sorted).id THEN <<d>> \o sorted
    ELSE <<Head(sorted)>> \o InsertById(Tail(sorted), d)

\* points.sort(key=lambda x: x[2]): stable, ascending identifier
RECURSIVE SortById(_)
SortById(dets) ==
    IF dets = <<>> THEN <<>>
    ELSE InsertById(SortById(SubSeq(dets, 1, Len(dets) - 1)), dets[Len(dets)])

\* detect_markers: the centres in ascending identifier order; the
\* identifier itself is dropped from the result (kept here to tell which
\* detection a point came from)
detect_markers(dets) == SortById(dets)

\* draw_markers_and_lines: the labels drawn
DrawnLabels(points) ==
    IF Len(points) = NumRoles
    THEN [i \in 1 .. NumRoles |->
             [label |-> Labels[i], point |-> points[i].point, id |-> points[i].id]]
    ELSE <<>>

\* History: the points self.trajectory.append was called with
MiddlesAfter(hist, points) ==
    IF Len(points) = NumRoles THEN Append(hist, points[2].point) ELSE hist

\* Mutant: the oldest point is never discarded
TrajectoryAfterUnbounded(traj, points) ==
    IF Len(points) = NumRoles THEN Append(traj, points[2].point) ELSE traj

\* Mutant: with fewer than 3 points the last middle point is recorded again
TrajectoryAfterHold(traj, points) ==
    IF Len(points) = NumRoles \/ traj # <<>>
    THEN Append(traj, IF Len(points) = NumRoles THEN points[2].point
                      ELSE traj[Len(traj)])
    ELSE traj

\* draw_markers_and_lines: self.trajectory afterwards
TrajectoryAfter(traj, points) ==
    IF Len(points) = NumRoles
    THEN LET appended == Append(traj, points[2].point)
         IN  IF Len(appended) > max_trajectory_points THEN Tail(appended)
             ELSE appended
    ELSE traj

InitTracker ==
    /\ trajectory = <<>>
    /\ detected = <<>>
    /\ drawn = <<>>
    /\ nframes = 0
    /\ frame = [Left |-> Missing, Middle |-> Missing, Right |-> Missing]
    /\ sample = NoSample
    /\ data = <<>>
    /\ window = 1
    /\ smoothed = NotSmoothed
    /\ h5 = <<>>
    /\ pwindow = 1
    /\ files = NoFiles
    /\ columns = RequiredColumns
    /\ display = NoDisplay
    /\ pvalue = FNaN
    /\ alpha = AlphaDefault
    /\ sig_text = NoSigText
    /\ group1 = <<>>
    /\ group2 = <<>>
    /\ report = NoReport
    /\ summary = NoSummary
    /\ middles = <<>>

\* The identifiers the detector reports for one frame: up to one marker
\* more than there are roles, in any order, each identifier at most once
IdOrders ==
    {q \in SeqsUpTo(MarkerIds, NumRoles + 1) :
        \A i, j \in DOMAIN q : q[i] = q[j] => i = j}

\* What the detector reports for one frame: the markers sit along the bar
\* in identifier order, and the bar is shifted by 0 .. MaxCenter pixels
FrameDetections ==
    {[i \in DOMAIN q |-> [point |-> <<q[i] + shift, 0>>, id |-> q[i]]] :
        q \in IdOrders, shift \in 0 .. MaxCenter}

\* process_video: one turn of the loop on a frame with detections dets
ProcessFrame ==
    /\ nframes < MaxTracked
    /\ \E dets \in FrameDetections :
          LET points == detect_markers(dets) IN
          /\ detected' = points
          /\ drawn' = DrawnLabels(points)
          /\ trajectory' = TrajectoryAfter(trajectory, points)
          /\ middles' = MiddlesAfter(middles, points)
    /\ nframes' = nframes + 1

\* Frames read of a long video, and how many of its first frames may show
\* another number of markers than three (every frame from the one after
\* the trajectory is full may)
MaxVideoFrames == 53

MaxEarlySkips == 2

\* What the detector reports for frame n of the long video: markers 0, 1, 2
\* (in the detector's order 2, 0, 1) on a bar that moves one pixel a frame,
\* or, where allowed, only two of them or a fourth one as well
VideoDetections(n) ==
    LET marker(id) == [point |-> <<n + id, 0>>, id |-> id]
        three == <<marker(2), marker(0), marker(1)>>
    IN  IF n < MaxEarlySkips \/ n >= max_trajectory_points
        THEN {three, <<marker(1), marker(0)>>, Append(three, marker(3))}
        ELSE {three}

\* process_video: one turn of the loop on a frame of the long video
ProcessVideoFrame ==
    /\ nframes < MaxVideoFrames
    /\ \E dets \in VideoDetections(nframes) :
          LET points == detect_markers(dets) IN
          /\ detected' = points
          /\ drawn' = DrawnLabels(points)
          /\ trajectory' = TrajectoryAfter(trajectory, points)
          /\ middles' = MiddlesAfter(middles, points)
    /\ nframes' = nframes + 1

----------------------------------------------------------------------------
(* add_significance_annotation *)

\* Largest p-value and largest alpha tried, in units of 1/PerOne
MaxP == 110

MaxAlpha == 105

PValues == {Fl(p) : p \in 0 .. MaxP} \cup {FNaN}

Alphas == 1 .. MaxAlpha

\* a < b on IEEE floats: False when a is NaN
FLess(a, b) == ~a.nan /\ a.v < b

\* Mutant: the caller's alpha is tested before the fixed levels
add_significance_annotation_alpha_first(p_value, al) ==
    IF FLess(p_value, al) THEN "*"
    ELSE IF FLess(p_value, PerOne \div 1000) THEN "***"
    ELSE IF FLess(p_value, PerOne \div 100) THEN "**"
    ELSE "ns"

\* Gender_compare_groups.add_significance_annotation: the stars of sig_text
add_significance_annotation(p_value, al) ==
    IF FLess(p_value, PerOne \div 1000) THEN "***"
    ELSE IF FLess(p_value, PerOne \div 100) THEN "**"
    ELSE IF FLess(p_value, al) THEN "*"
    ELSE "ns"

\* Weight_compare_groups.add_significance_annotation: the stars of sig_text
add_significance_annotation_weight(p_value, al) ==
    IF FLess(p_value, PerOne \div 1000) THEN "***"
    ELSE IF FLess(p_value, PerOne \div 100) THEN "**"
    ELSE IF FLess(p_value, al) THEN "*"
    ELSE "ns"

InitSignificance ==
    /\ pvalue \in PValues
    /\ alpha \in Alphas
    /\ sig_text = NoSigText
    /\ frame = [Left |-> Missing, Middle |-> Missing, Right |-> Missing]
    /\ sample = NoSample
    /\ data = <<>>
    /\ window = 1
    /\ smoothed = NotSmoothed
    /\ h5 = <<>>
    /\ pwindow = 1
    /\ files = NoFiles
    /\ trajectory = <<>>
    /\ detected = <<>>
    /\ drawn = <<>>
    /\ nframes = 0
    /\ columns = RequiredColumns
    /\ display = NoDisplay
    /\ group1 = <<>>
    /\ group2 = <<>>
    /\ report = NoReport
    /\ summary = NoSummary
    /\ middles = <<>>

AnnotateGender ==
    /\ sig_text' = [script |-> "gender",
                    stars |-> add_significance_annotation(pvalue, alpha)]
    /\ UNCHANGED <<pvalue, alpha>>

AnnotateWeight ==
    /\ sig_text' = [script |-> "weight",
                    stars |-> add_significance_annotation_weight(pvalue, alpha)]
    /\ UNCHANGED <<pvalue, alpha>>

----------------------------------------------------------------------------
(* The compare scripts and the statistics of analyze_barbell_angles *)

\* Longest keypoint series behind a group's CSV
MaxRows == 2

\* The frames a group's series is made of: a bar tilted 1:2 (26.565051
\* degrees), a frame without its left end and one without its right end
GroupFrames ==
    {[Left |-> PipeKeypoint(0, 0), Middle |-> PipeKeypoint(2, 1), Right |-> PipeKeypoint(4, 2)],
     [Left |-> Missing, Middle |-> PipeKeypoint(2, 1), Right |-> PipeKeypoint(5, 2)],
     [Left |-> PipeKeypoint(0, 2), Middle |-> PipeKeypoint(2, 1), Right |-> Missing]}

\* Integer division that truncates toward zero
IntDiv(a, b) == Sign(a) * (Abs(a) \div b)

\* pd.read_csv of the angle table: rounded angles, an empty cell is NaN
AngleColumn(table, name) == [i \in DOMAIN table |-> table[i][name]]

\* Series.dropna()
DropNa(col) == SelectSeq(col, LAMBDA a : ~a.nan)

\* Mutant: the rows with a NaN in either column are dropped
group_column_complete_rows(table, name) ==
    AngleColumn(SelectSeq(table, LAMBDA r : ~r.left_angle_deg.nan
                                            /\ ~r.right_angle_deg.nan), name)

\* group1_df['left_angle_deg'].dropna()
group_column(table, name) == DropNa(AngleColumn(table, name))

RECURSIVE SumH(_)
SumH(col) == IF col = <<>> THEN 0 ELSE Head(col).h + SumH(Tail(col))

\* f"{np.mean(col):.2f}": NaN for an empty column
MeanText(col) ==
    IF col = <<>> THEN RNaN
    ELSE [nan |-> FALSE, h |-> RoundHalfEven(SumH(col), Len(col))]

\* stats.sem(col): NaN below two values
Sem(col) == [nan |-> Len(col) < 2]

\* The p-values stats.ttest_ind may return: NaN when a group is empty;
\* of the others only the extremes, and NaN (no variance), are tried
TTestPValues(a, b) ==
    IF a = <<>> \/ b = <<>> THEN {FNaN}
    ELSE {Fl(0), Fl(PerOne), FNaN}

\* One side of main: the columns used, the statistics, the annotation
CompareSide(a, b, p, al, stars) ==
    [used1 |-> a, used2 |-> b, mean1 |-> MeanText(a), mean2 |-> MeanText(b),
     sem1 |-> Sem(a), sem2 |-> Sem(b), t_stat |-> [nan |-> p.nan],
     p_value |-> p, stars |-> stars]

\* main(args) of the compare scripts, the CSVs being the angle tables of
\* the two series: nothing stops it, the results file and the plot are
\* written whatever the statistics are
CompareReport(script, s1, s2, left, right) ==
    [script |-> script, status |-> "finished", left |-> left, right |-> right,
     results_file |-> TRUE, plot |-> TRUE]

\* analyze_barbell_angles: one angle column and its statistics;
\* Series.mean() and Series.std() skip NaN
SummarySide(angles) ==
    LET used == SelectSeq(angles, LAMBDA a : ~a.nan)
        RECURSIVE SumUd(_)
        SumUd(q) == IF q = <<>> THEN 0 ELSE Head(q).ud + SumUd(Tail(q))
    IN  [used |-> used,
         mean |-> IF used = <<>> THEN RNaN
                  ELSE Round2(Ang(IntDiv(SumUd(used), Len(used)))),
         std |-> [nan |-> Len(used) < 2]]

\* analyze_barbell_angles(input_file, video_height) on a series
analyze_barbell_angles(series, H) ==
    [ret |-> "stats",
     left |-> SummarySide([i \in DOMAIN series |-> RowAnalyze(series[i], H).left.angle]),
     right |-> SummarySide([i \in DOMAIN series |-> RowAnalyze(series[i], H).right.angle])]

GroupSeries == SeqsUpTo(GroupFrames, MaxRows)

\* The CSV calculate_and_plot_angles writes for each series (computed once)
GroupTables == [series \in GroupSeries |-> AngleTable(series)]

\* What analyze_barbell_angles returns for each series (computed once)
GroupSummaries ==
    [series \in GroupSeries |->
        analyze_barbell_angles(series, VideoHeightDefault * Scale)]

InitCompare ==
    /\ group1 \in GroupSeries
    /\ group2 \in GroupSeries
    /\ alpha = AlphaDefault
    /\ report = NoReport
    /\ summary = NoSummary
    /\ pvalue = FNaN
    /\ sig_text = NoSigText
    /\ frame = [Left |-> Missing, Middle |-> Missing, Right |-> Missing]
    /\ sample = NoSample
    /\ data = <<>>
    /\ window = 1
    /\ smoothed = NotSmoothed
    /\ h5 = <<>>
    /\ pwindow = 1
    /\ files = NoFiles
    /\ trajectory = <<>>
    /\ detected = <<>>
    /\ drawn = <<>>
    /\ nframes = 0
    /\ columns = RequiredColumns
    /\ display = NoDisplay
    /\ middles = <<>>

\* Weight_compare_groups.main
CompareWeight ==
    LET t1 == GroupTables[group1]
        t2 == GroupTables[group2]
        l1 == group_column(t1, "left_angle_deg")
        l2 == group_column(t2, "left_angle_deg")
        r1 == group_column(t1, "right_angle_deg")
        r2 == group_column(t2, "right_angle_deg")
    IN  /\ \E pl \in TTestPValues(l1, l2), pr \in TTestPValues(r1, r2) :
              report' = CompareReport("weight", group1, group2,
                  CompareSide(l1, l2, pl, alpha,
                              add_significance_annotation_weight(pl, alpha)),
                  CompareSide(r1, r2, pr, alpha,
                              add_significance_annotation_weight(pr, alpha)))
        /\ UNCHANGED <<group1, group2, summary>>

\* Gender_compare_groups.main
CompareGender ==
    LET t1 == GroupTables[group1]
        t2 == GroupTables[group2]
        l1 == group_column(t1, "left_angle_deg")
        l2 == group_column(t2, "left_angle_deg")
        r1 == group_column(t1, "right_angle_deg")
        r2 == group_column(t2, "right_angle_deg")
    IN  /\ \E pl \in TTestPValues(l1, l2), pr \in TTestPValues(r1, r2) :
              report' = CompareReport("gender", group1, group2,
                  CompareSide(l1, l2, pl, alpha,
                              add_significance_annotation(pl, alpha)),
                  CompareSide(r1, r2, pr, alpha,
                              add_significance_annotation(pr, alpha)))
        /\ UNCHANGED <<group1, group2, summary>>

\* analyze_barbell_angles on the first group's series
AnalyzeSeries ==
    /\ summary' = GroupSummaries[group1]
    /\ UNCHANGED <<group1, group2, report>>

----------------------------------------------------------------------------
(* Claims about the slope-form and directional-form angles (SpecAngle) *)

SlopeRun == sample.kind \in {"analyze", "plot"}

Finite(k) == ~IsMissing(k)

\* C1: the slope-form dy computed from normalized y is the raw difference
\* mid.y - end.y, and the angle is the one every other height gives.
C1_NormalizationInvariance ==
    SlopeRun =>
        /\ sample.left.dy = FSub(frame.Middle.y, frame.Left.y)
        /\ sample.right.dy = FSub(frame.Middle.y, frame.Right.y)
        /\ sample.left.angle
             = ArctanDegDiv(FSub(frame.Middle.y, frame.Left.y), sample.left.den)
        /\ sample.right.angle
             = ArctanDegDiv(FSub(frame.Middle.y, frame.Right.y), sample.right.den)
        /\ \A H \in Heights :
             /\ RowAnalyze(frame, H).left.angle = RowAnalyze(frame, 0).left.angle
             /\ RowAnalyze(frame, H).right.angle = RowAnalyze(frame, 0).right.angle

C1_Witness ==
    /\ sample.kind = "analyze"
    /\ sample.height = VideoHeightDefault
    /\ ~sample.left.dy.nan /\ sample.left.dy.v > 0 /\ sample.left.angle.ud > 0
    /\ ~sample.right.dy.nan /\ sample.right.dy.v < 0 /\ sample.right.angle.ud < 0

SideEpsilonOk(side) ==
    (~side.dx.nan /\ side.dx.v = 0) =>
        /\ side.den.eps = 1
        /\ ~DenomIsZero(side.den)
        /\ (~side.dy.nan /\ side.dy.v # 0) =>
              /\ ~side.angle.nan
              /\ Sign(side.angle.ud) = Sign(side.dy.v)

\* C2: in every slope-form computation a zero dx gets the epsilon added to
\* the denominator, so nothing is divided by zero and the angle of dx = 0,
\* dy # 0 is defined, with the sign of dy.
C2_EpsilonInEveryComputation ==
    SlopeRun => SideEpsilonOk(sample.left) /\ SideEpsilonOk(sample.right)

\* The angle a slope-form run emits for a side
Emitted(side) == IF sample.kind = "plot" THEN side.rounded.nan ELSE side.angle.nan

\* C3: a segment whose keypoints coincide, or one of whose keypoints is
\* missing, gets the NaN sentinel in every slope-form computation.
C3_UndefinedAngleIsNaN ==
    SlopeRun =>
        /\ (Coincide(frame.Left, frame.Middle) \/ IsMissing(frame.Left)
            \/ IsMissing(frame.Middle)) => Emitted(sample.left)
        /\ (Coincide(frame.Right, frame.Middle) \/ IsMissing(frame.Right)
            \/ IsMissing(frame.Middle)) => Emitted(sample.right)

Distinct(a, b) == Finite(a) /\ Finite(b) /\ ~Coincide(a, b)

HundredthsOf90 == 90 * 100

StrictlyInside(side) ==
    /\ ~side.angle.nan
    /\ -Right90 < side.angle.ud /\ side.angle.ud < Right90
    /\ -HundredthsOf90 < Round2(side.angle).h
    /\ Round2(side.angle).h < HundredthsOf90

\* C4 as stated: for distinct finite keypoints the slope-form angle, before
\* and after rounding, is strictly inside (-90, 90).
C4_StrictlyInsideOpenInterval ==
    SlopeRun =>
        /\ Distinct(frame.Left, frame.Middle) => StrictlyInside(sample.left)
        /\ Distinct(frame.Right, frame.Middle) => StrictlyInside(sample.right)

InClosedInterval(side) ==
    /\ ~side.angle.nan
    /\ -Right90 <= side.angle.ud /\ side.angle.ud <= Right90
    /\ -HundredthsOf90 <= Round2(side.angle).h
    /\ Round2(side.angle).h <= HundredthsOf90
    /\ (sample.kind = "plot" /\ side.dx.v = 0 /\ Abs(side.dy.v) >= 1) =>
          side.rounded.h = Sign(side.dy.v) * HundredthsOf90

\* C4 amended: for distinct finite keypoints the slope-form angle, before
\* and after rounding, is in the closed interval [-90, 90]; the rounded
\* angle of calculate_and_plot_angles is exactly +-90.00 when dx = 0 and
\* dy is a pixel or more.
C4_InsideClosedInterval ==
    SlopeRun =>
        /\ Distinct(frame.Left, frame.Middle) => InClosedInterval(sample.left)
        /\ Distinct(frame.Right, frame.Middle) => InClosedInterval(sample.right)

C4_Witness ==
    /\ sample.kind = "plot"
    /\ Distinct(frame.Left, frame.Middle)
    /\ sample.left.dx.v = 0
    /\ sample.left.angle.ud < Right90
    /\ sample.left.rounded.h = HundredthsOf90
    /\ Distinct(frame.Right, frame.Middle)
    /\ sample.right.dx.v > 0 /\ sample.right.dy.v < 0

InHalfOpen180(a) == ~a.nan /\ -Straight180 < a.ud /\ a.ud <= Straight180

\* C5: for finite endpoints p1 # p2 and both values of is_left,
\* calculate_angle returns a value in (-180, 180]; -180 is never returned.
C5_DirectionalInHalfOpenInterval ==
    (sample.kind = "display" /\ sample.ret = "written") =>
        /\ Distinct(frame.Left, frame.Middle) => InHalfOpen180(sample.left.angle)
        /\ Distinct(frame.Middle, frame.Right) => InHalfOpen180(sample.right.angle)

HigherInImage(end, mid) == Finite(end) /\ Finite(mid) /\ end.y.v < mid.y.v

LowerInImage(end, mid) == Finite(end) /\ Finite(mid) /\ end.y.v > mid.y.v

\* C19: for Left=(0,90), Middle=(50,100), Right=(100,110) and height 200
\* the slope form gives left dy = 10, dx = 50, angle atan(10/50) = 11.31
\* and right dy = -10, dx = 50, angle -11.31; in every frame the end higher
\* in the image than the middle gets a positive angle and the lower end a
\* negative one.
C19_TiltSignConvention ==
    SlopeRun =>
        /\ (frame = ScenarioFrame
            /\ sample.height \in {ScenarioHeight, PlotHeight}) =>
              /\ sample.left.dy = Fl(10) /\ sample.left.dx = Fl(50)
              /\ sample.right.dy = Fl(-10) /\ sample.right.dx = Fl(50)
              /\ sample.left.angle = Ang(AtanMicro(10, 50))
              /\ Round2(sample.left.angle).h = 1131
              /\ Round2(sample.right.angle).h = -1131
              /\ sample.right.angle.ud = -sample.left.angle.ud
        /\ HigherInImage(frame.Left, frame.Middle) => sample.left.angle.ud > 0
        /\ LowerInImage(frame.Left, frame.Middle) => sample.left.angle.ud < 0
        /\ HigherInImage(frame.Right, frame.Middle) => sample.right.angle.ud > 0
        /\ LowerInImage(frame.Right, frame.Middle) => sample.right.angle.ud < 0

C19_Witness ==
    /\ frame = ScenarioFrame
    /\ sample.kind = "analyze"
    /\ sample.height = ScenarioHeight
    /\ Round2(sample.left.angle).h = 1131
    /\ Round2(sample.right.angle).h = -1131

DisplayRan == sample.kind = "display" /\ sample.ret = "written"

----------------------------------------------------------------------------
(* Claims about moving_average (SpecSmooth) *)

FiniteSeries(q) == \A i \in DOMAIN q : ~q[i].nan

RECURSIVE SumFrom(_, _, _)
SumFrom(q, lo, hi) ==
    IF lo > hi THEN Fl(0)
    ELSE IF lo \in DOMAIN q THEN FAdd(q[lo], SumFrom(q, lo + 1, hi))
    ELSE SumFrom(q, lo + 1, hi)

RECURSIVE SumSq(_)
SumSq(q) == IF q = <<>> THEN 0 ELSE Head(q).v * Head(q).v + SumSq(Tail(q))

\* n (n - 1) times the sample variance
VarTimes(q) == Len(q) * SumSq(q) - SumFrom(q, 1, Len(q)).v * SumFrom(q, 1, Len(q)).v

\* C6: for 1 <= w <= len(series) moving_average returns, without error, a
\* sequence as long as the series.
C6_LengthPreserved ==
    (smoothed.status # "none" /\ window <= Len(data)) =>
        /\ smoothed.status = "ok"
        /\ Len(smoothed.values) = Len(data)

C6_Witness ==
    /\ smoothed.status = "ok"
    /\ window = Len(data)
    /\ window > 1
    /\ Len(smoothed.values) = Len(data)

\* C8 as stated: for a non-constant series the sample variance of the
\* output is at most that of the input, and at most that of the output of
\* every smaller window.
C8_VarianceNeverGrows ==
    (smoothed.status = "ok" /\ FiniteSeries(data)
     /\ \E i \in DOMAIN data : data[i] # data[1]) =>
        \A w \in 1 .. window :
            VarTimes(smoothed.values) <= VarTimes(moving_average(data, w).values)

\* C8 amended: the sum of squares of the output (its second moment about
\* zero) is at most that of the input.
C8_SumOfSquaresNeverGrows ==
    (smoothed.status = "ok" /\ FiniteSeries(data)) =>
        SumSq(smoothed.values) <= SumSq(data)

C8_Witness ==
    /\ smoothed.status = "ok" /\ FiniteSeries(data)
    /\ window > 1
    /\ VarTimes(smoothed.values) > VarTimes(data)
    /\ SumSq(smoothed.values) < SumSq(data)

\* (1/w) * sum of the inputs over the w indices centred on i, indices
\* outside the series counted as 0
CenteredMean(q, w, i) ==
    LET k == w \div 2
        hi == IF w % 2 = 1 THEN i + k ELSE i + k - 1
        total == SumFrom(q, i - k, hi)
    IN  IF total.nan THEN FNaN ELSE Fl(total.v \div w)

\* C9: output[i] is the zero-padded mean over i-k..i+k (w = 2k+1) or
\* i-k..i+k-1 (w = 2k), and a window of 1 is the identity.
C9_CenteredZeroPadded ==
    smoothed.status = "ok" =>
        /\ \A i \in DOMAIN data :
              /\ i \in DOMAIN smoothed.values
              /\ smoothed.values[i] = CenteredMean(data, window, i)
        /\ window = 1 => smoothed.values = data

C9_Witness ==
    /\ smoothed.status = "ok" /\ FiniteSeries(data)
    /\ window = 2 /\ Len(data) = 3
    /\ smoothed.values[1].v > 0
    /\ smoothed.values[1] # smoothed.values[3]
    /\ smoothed.values[3].v # data[3].v

----------------------------------------------------------------------------
(* Claims about process_h5_file (SpecPipe) *)

\* C7: when the window is larger than the series, process_h5_file fails
\* with the insufficient-data error before anything was computed or
\* written: no before-smoothing CSV or plot, no channel smoothed.
C7_FailsBeforeAnyOutput ==
    (files.status # "none" /\ pwindow > Len(h5)) =>
        /\ files.status = "ValueError"
        /\ files.csv_before = <<>>
        /\ ~files.plot_before
        /\ files.nsmoothed = 0

UsesMissing(f, end) == IsMissing(f[end]) \/ IsMissing(f.Middle)

\* C16: batch angle computation emits one Angle Sample per frame, in frame
\* order with Frame the input frame index; a frame with a missing keypoint
\* gets NaN for the angles that use it and the later frames are still
\* processed, in the slope-form batch and in the directional-form loop.
C16_BatchEmitsEveryFrame ==
    /\ files.status \in {"ok", "ValueError"} =>
          /\ Len(files.csv_before) = Len(h5)
          /\ \A i \in DOMAIN h5 :
                /\ files.csv_before[i].Frame = i - 1
                /\ UsesMissing(h5[i], "Left") => files.csv_before[i].left_angle_deg.nan
                /\ UsesMissing(h5[i], "Right") => files.csv_before[i].right_angle_deg.nan
    /\ display.status \in {"finished", "ValueError"} =>
          /\ display.status = "finished"
          /\ Len(display.written) = Len(h5)
          /\ \A i \in DOMAIN h5 :
                /\ display.written[i].Frame = i - 1
                /\ UsesMissing(h5[i], "Left") => display.written[i].left_angle.nan
                /\ UsesMissing(h5[i], "Right") => display.written[i].right_angle.nan

\* Values a single coordinate is changed to
OtherValues == {Fl(3 * Scale), FNaN}

ChannelOf(series, ch) == [i \in DOMAIN series |-> series[i][ch[1]][ch[2]]]

\* C20: each smoothed channel is moving_average of the same channel of the
\* original series with the same window, so changing one channel changes
\* no other smoothed channel; the 'before' angles come from the original
\* coordinates and the 'after' angles from the smoothed ones.
C20_ChannelIndependence ==
    files.status = "ok" =>
        /\ \A k \in DOMAIN ChannelOrder :
              ChannelOf(files.smoothed_h5, ChannelOrder[k])
                = moving_average(ChannelOf(h5, ChannelOrder[k]), pwindow).values
        /\ \A k \in DOMAIN ChannelOrder, i \in DOMAIN h5, v \in OtherValues :
              LET ch == ChannelOrder[k]
                  changed == [h5 EXCEPT ![i][ch[1]][ch[2]] = v]
                  after == SmoothingLoop(changed, pwindow)
              IN  \A j \in DOMAIN ChannelOrder \ {k} :
                      after[j].values = ChannelOf(files.smoothed_h5, ChannelOrder[j])
        /\ files.csv_before = AngleTable(h5)
        /\ files.csv_after = AngleTable(files.smoothed_h5)

\* moving_average applied to a column of the 'before' angle table
SmoothedAngles(table, name, w) ==
    moving_average([i \in DOMAIN table |->
                       IF table[i][name].nan THEN FNaN
                       ELSE Fl(table[i][name].h * Scale)], w).values

\* A run whose 'after' angles are not the smoothed 'before' angles
C20_Witness ==
    /\ files.status = "ok"
    /\ pwindow > 1
    /\ \A i \in DOMAIN h5 : ~files.csv_before[i].left_angle_deg.nan
    /\ \E i \in DOMAIN h5 :
          /\ ~files.csv_after[i].left_angle_deg.nan
          /\ files.csv_after[i].left_angle_deg.h * Scale
               # SmoothedAngles(files.csv_before, "left_angle_deg", pwindow)[i].v

----------------------------------------------------------------------------
(* Claims about BarbellTracker (SpecTracker) *)

\* C10: whenever roles are assigned, Left is the detection with identifier
\* 0, Middle the one with 1 and Right the one with 2; no other identifier
\* gets a role.
C10_RolesAreIdentifiers012 ==
    drawn # <<>> =>
        \A i \in DOMAIN drawn : drawn[i].id = i - 1

\* C11: a frame with more than 3 detections still yields a full triple:
\* the three smallest identifiers are labelled Left, Middle, Right and the
\* middle one is recorded in the trajectory.
C11_MoreThanThreeStillTriple ==
    Len(detected) > NumRoles =>
        /\ Len(drawn) = NumRoles
        /\ \A i \in DOMAIN drawn :
              /\ drawn[i].label = Labels[i]
              /\ drawn[i].point = detected[i].point
        /\ trajectory # <<>>
        /\ trajectory[Len(trajectory)] = detected[2].point

\* C12: a frame with fewer than 3 detections yields fewer than 3 points,
\* labels no role and leaves the trajectory as the frames before left it.
C12_NoHistoryFillIn ==
    [][Len(detected') < NumRoles =>
          /\ detected' \in {detect_markers(dets) : dets \in FrameDetections}
          /\ drawn' = <<>>
          /\ trajectory' = trajectory]_vars

C12_Witness ==
    /\ nframes = 2
    /\ Len(detected) = NumRoles - 1
    /\ drawn = <<>>
    /\ Len(trajectory) = 1
    /\ \A i \in DOMAIN detected : detected[i].point # trajectory[1]

----------------------------------------------------------------------------
(* Claims about the trajectory buffer (SpecBuffer) *)

\* The last n elements of q
LastN(q, n) == SubSeq(q, Max2(1, Len(q) - n + 1), Len(q))

\* C21: the trajectory holds at most max_trajectory_points (50) points, and
\* they are, in arrival order, the middle points of the most recent frames
\* that had exactly 3 detections; a 51st point pushes out the oldest.
C21_TrajectoryBoundAndOrder ==
    /\ Len(trajectory) <= max_trajectory_points
    /\ trajectory = LastN(middles, max_trajectory_points)
    /\ Len(detected) = NumRoles =>
          trajectory[Len(trajectory)] = detected[2].point
    /\ Len(middles) <= nframes

C21_Witness ==
    /\ Len(middles) = max_trajectory_points + 1
    /\ nframes > Len(middles)
    /\ Len(trajectory) = max_trajectory_points
    /\ trajectory[1] = middles[2]
    /\ trajectory[1] # middles[1]
    /\ trajectory[max_trajectory_points] = middles[max_trajectory_points + 1]

----------------------------------------------------------------------------
(* Claims about add_significance_annotation (SpecSignificance) *)

StarLabels == {"***", "**", "*", "ns"}

\* C13: exactly one label is chosen, by the first matching rule of
\* p < 0.001: '***', p < 0.01: '**', p < alpha: '*', otherwise 'ns'; the
\* gender and the weight comparison choose the same label.
C13_FirstMatchingRule ==
    sig_text.script # "none" =>
        /\ sig_text.stars \in StarLabels
        /\ sig_text.stars = "***" <=> FLess(pvalue, PerOne \div 1000)
        /\ sig_text.stars = "**" <=>
              (~FLess(pvalue, PerOne \div 1000) /\ FLess(pvalue, PerOne \div 100))
        /\ sig_text.stars = "*" <=>
              (~FLess(pvalue, PerOne \div 100) /\ FLess(pvalue, alpha))
        /\ add_significance_annotation(pvalue, alpha)
             = add_significance_annotation_weight(pvalue, alpha)

C13_Witness ==
    /\ sig_text.script = "weight"
    /\ sig_text.stars = "**"
    /\ alpha < PerOne \div 100
    /\ ~FLess(pvalue, alpha)

\* C23: for every p-value and every alpha in (0, 1), a starred label is
\* produced only if p < alpha, and 'ns' whenever p >= alpha, also for an
\* alpha below 0.01 or 0.001.
C23_StarsRespectAlpha ==
    sig_text.script # "none" =>
        /\ sig_text.stars \in {"*", "**", "***"} => FLess(pvalue, alpha)
        /\ (~pvalue.nan /\ pvalue.v >= alpha) => sig_text.stars = "ns"

----------------------------------------------------------------------------
(* Claims about the compare scripts and the statistics (SpecCompare) *)

CompareRan == report.status # "none"

EmptyGroup(side) == side.used1 = <<>> \/ side.used2 = <<>>

\* C14: when a group has no valid sample for a side, the comparison fails
\* with StatisticalInputError and produces no t-statistic, p-value, label,
\* results file or plot.
C14_EmptyGroupIsError ==
    (CompareRan /\ (EmptyGroup(report.left) \/ EmptyGroup(report.right))) =>
        /\ report.status = "StatisticalInputError"
        /\ ~report.results_file
        /\ ~report.plot
        /\ report.left.stars = "none" /\ report.right.stars = "none"

NaNsUpTo(col, i) == Cardinality({j \in 1 .. i : col[j].nan})

\* used is col without its NaN entries, in order
ExactlyNonNaN(used, col) ==
    /\ Len(used) = Len(col) - NaNsUpTo(col, Len(col))
    /\ \A i \in DOMAIN col :
          ~col[i].nan => used[i - NaNsUpTo(col, i)] = col[i]

\* C17: for each side on its own, the values the statistics are computed
\* over are exactly the non-NaN angles of that side's column: as many as
\* there are frames minus that column's NaN angles.
C17_NaNExclusionCount ==
    /\ CompareRan =>
          /\ ExactlyNonNaN(report.left.used1,
                            AngleColumn(GroupTables[group1], "left_angle_deg"))
          /\ ExactlyNonNaN(report.left.used2,
                            AngleColumn(GroupTables[group2], "left_angle_deg"))
          /\ ExactlyNonNaN(report.right.used1,
                            AngleColumn(GroupTables[group1], "right_angle_deg"))
          /\ ExactlyNonNaN(report.right.used2,
                            AngleColumn(GroupTables[group2], "right_angle_deg"))
          /\ report.left.mean1.nan <=> report.left.used1 = <<>>
          /\ report.right.mean1.nan <=> report.right.used1 = <<>>
    /\ summary.ret = "stats" =>
          /\ ExactlyNonNaN(summary.left.used,
                 [i \in DOMAIN group1 |->
                     RowAnalyze(group1[i], VideoHeightDefault * Scale).left.angle])
          /\ ExactlyNonNaN(summary.right.used,
                 [i \in DOMAIN group1 |->
                     RowAnalyze(group1[i], VideoHeightDefault * Scale).right.angle])
          /\ summary.left.mean.nan <=> summary.left.used = <<>>
          /\ summary.right.mean.nan <=> summary.right.used = <<>>

C17_Witness ==
    /\ CompareRan
    /\ Len(group1) = 2
    /\ Len(report.left.used1) = 1
    /\ Len(report.right.used1) = 2
    /\ ~report.left.mean1.nan

\* The unrounded slope-form angles of a series, NaN left out
RawAngles(series, side) ==
    SelectSeq([i \in DOMAIN series |->
                  RowPlotAt(series[i], PlotHeight * Scale)[side].angle],
              LAMBDA a : ~a.nan)

FromRaw(used, raw) ==
    /\ Len(used) = Len(raw)
    /\ \A i \in DOMAIN used : used[i].h * MicroPerHundredth = raw[i].ud

\* C18: every statistic is computed from the unrounded angles, also when
\* the angles reach it through the angle table; only the final statistic
\* is rounded.
C18_StatisticsFromRawAngles ==
    /\ CompareRan =>
          /\ FromRaw(report.left.used1, RawAngles(group1, "left"))
          /\ FromRaw(report.right.used1, RawAngles(group1, "right"))
          /\ FromRaw(report.left.used2, RawAngles(group2, "left"))
          /\ FromRaw(report.right.used2, RawAngles(group2, "right"))
    /\ summary.ret = "stats" =>
          summary.left.used
            = SelectSeq([i \in DOMAIN group1 |->
                            RowAnalyze(group1[i], VideoHeightDefault * Scale).left.angle],
                        LAMBDA a : ~a.nan)

----------------------------------------------------------------------------
(* Claims about malformed keypoint tables (SpecMalformed) *)

\* C15: when the table lacks a Left, Middle or Right x/y column the call
\* fails at once with an error that reaches the caller: no normal return
\* value such as None, no warning after which processing goes on.
C15_MalformedInputFailsFast ==
    ~HasRequiredColumns =>
        /\ sample.kind \in {"analyze", "plot"} => sample.ret = "KeyError"
        /\ files.status # "none" =>
              /\ files.status = "KeyError"
              /\ files.nsmoothed = 0
              /\ ~files.saved

----------------------------------------------------------------------------
(* Specifications *)

NextAngle ==
    \/ AnalyzeBarbellAngles
       /\ UNCHANGED <<smoothVars, pipeVars, trackerVars, sigVars, compareVars>>
    \/ CalculateAndPlotAngles
       /\ UNCHANGED <<smoothVars, pipeVars, trackerVars, sigVars, compareVars>>
    \/ DisplayFrame
       /\ UNCHANGED <<smoothVars, pipeVars, trackerVars, sigVars, compareVars>>

SpecAngle ==
    InitAngle /\ [][NextAngle]_vars

NextSmooth ==
    \/ MovingAverage
       /\ UNCHANGED <<angleVars, pipeVars, trackerVars, sigVars, compareVars>>

SpecSmooth ==
    InitSmooth /\ [][NextSmooth]_vars

NextPipe ==
    \/ ProcessH5File
       /\ UNCHANGED <<angleVars, smoothVars, trackerVars, sigVars, compareVars>>
    \/ DisplayLoopStep
       /\ UNCHANGED <<angleVars, smoothVars, trackerVars, sigVars, compareVars>>

SpecPipe ==
    InitPipe /\ [][NextPipe]_vars

NextTracker ==
    \/ ProcessFrame
       /\ UNCHANGED <<angleVars, smoothVars, pipeVars, sigVars, compareVars>>

SpecTracker ==
    InitTracker /\ [][NextTracker]_vars

NextSignificance ==
    \/ AnnotateGender
       /\ UNCHANGED <<angleVars, smoothVars, pipeVars, trackerVars, compareVars>>
    \/ AnnotateWeight
       /\ UNCHANGED <<angleVars, smoothVars, pipeVars, trackerVars, compareVars>>

SpecSignificance ==
    InitSignificance /\ [][NextSignificance]_vars

NextCompare ==
    \/ CompareWeight
       /\ UNCHANGED <<angleVars, smoothVars, pipeVars, trackerVars, sigVars>>
    \/ CompareGender
       /\ UNCHANGED <<angleVars, smoothVars, pipeVars, trackerVars, sigVars>>
    \/ AnalyzeSeries
       /\ UNCHANGED <<angleVars, smoothVars, pipeVars, trackerVars, sigVars>>

SpecCompare ==
    InitCompare /\ [][NextCompare]_vars

NextMalformed ==
    \/ AnalyzeBarbellAngles
       /\ UNCHANGED <<smoothVars, pipeVars, trackerVars, sigVars, compareVars>>
    \/ CalculateAndPlotAngles
       /\ UNCHANGED <<smoothVars, pipeVars, trackerVars, sigVars, compareVars>>
    \/ ProcessH5File
       /\ UNCHANGED <<angleVars, smoothVars, trackerVars, sigVars, compareVars>>

SpecMalformed ==
    InitMalformed /\ [][NextMalformed]_vars

NextBuffer ==
    \/ ProcessVideoFrame
       /\ UNCHANGED <<angleVars, smoothVars, pipeVars, sigVars, compareVars>>

SpecBuffer ==
    InitTracker /\ [][NextBuffer]_vars

====
